---- MODULE Spec2Model ----
(***************************************************************************)
(* Model of dji-pano-stitcher.py: a linear script that locates the Hugin   *)
(* tools and ImageMagick, fetches SkyFill and ExifTool, and drives the     *)
(* stitching pipeline through files under temp/.                           *)
(*                                                                         *)
(* Representation.  A file name is a sequence of name parts, so that       *)
(* "pano0000.tif" is <<"pano", "0000", ".tif">>; the last part of a name   *)
(* with more than one part is its suffix (pathlib's Path.suffix), the      *)
(* parts before it its stem.  A path is a sequence of file names.  The     *)
(* working directory's content is the pair (files, dirs); it outlives a    *)
(* run, everything else is reset when the script is started again.         *)
(***************************************************************************)
EXTENDS Naturals, Sequences, FiniteSets, TLC

VARIABLES
    pc,         \* position of the script
    system,     \* platform.system()
    hugin,      \* whether HUGIN_BIN exists and holds the Hugin suite
    args,       \* parsed command line: [images, debug_skip]
    TOOLS,      \* tool name -> resolved executable path
    skyfill,    \* <<>> or <<path returned by ensure_skyfill>>
    exiftool,   \* <<>> or <<path returned by ensure_exiftool>>
    files,      \* regular files of the working directory
    dirs,       \* directories of the working directory
    log,        \* this run's actions on the outside world, in order
    gates,      \* this run's --debug-skip decisions, in order
    exitCode,   \* <<>> while running, <<code>> once the process has ended
    error,      \* <<>> or the message of the fatal error that ended the run
    execs,      \* files of the working directory with the execute bit set
    w, h,       \* width and height of the raster handed to the resize stage
    extent      \* <<>> or <<geometry computed by the -extent expression>>

vars == <<pc, system, hugin, args, TOOLS, skyfill, exiftool, files, dirs,
          log, gates, exitCode, error, execs, w, h, extent>>

-----------------------------------------------------------------------------
(* Bounds of the model *)

\* most remapped images one nona invocation writes
MaxImages == 2

\* largest raster width and height tried in the resize formula
MaxDim == 10

-----------------------------------------------------------------------------
(* Names and paths *)

Systems == {"Windows", "Linux", "Darwin"}

\* input folders the command line may name
ImageDirs == {"drone_shots", "roof"}

TOOLS_DIR == << <<"tools">> >>

TEMP_DIR == << <<"temp">> >>

OUTPUT_DIR == << <<"output">> >>

HUGIN_BIN == << <<"C:">>, <<"Program Files">>, <<"Hugin">>, <<"bin">> >>

\* directory standing for whatever PATH entry shutil.which resolved a tool in
PATH_DIR == << <<"$PATH">> >>

\* dir / name
Join(dir, name) == Append(dir, name)

\* Path.parent
Parent(p) == SubSeq(p, 1, Len(p) - 1)

\* Path.name
Name(p) == p[Len(p)]

\* Path.suffix of a file name
Suffix(name) == IF Len(name) > 1 THEN name[Len(name)] ELSE ""

\* Path.stem of a file name
Stem(name) == IF Len(name) > 1 THEN SubSeq(name, 1, Len(name) - 1) ELSE name

\* p lies strictly below directory d
Below(p, d) == Len(p) > Len(d) /\ SubSeq(p, 1, Len(d)) = d

\* Path.exists() for a path of the working directory or a resolved tool
Exists(p) == p \in files \/ p \in dirs \/ Parent(p) = PATH_DIR \/ Parent(p) = HUGIN_BIN

-----------------------------------------------------------------------------
(* The script's exits *)

\* the tools STEP 2 locates, in the order the TOOLS dict is built
ToolOrder == <<"pto_gen", "cpfind", "autooptimiser", "pano_modify", "nona",
               "enblend", "magick">>

\* Event(kind, what, ok, ins, outs): one record of the run's log.  kind is
\* "run" (an external command; ok: it exited with zero), "download" (ok: the
\* archive was fetched), "mkdir" (ok: the directory was not there before),
\* "rename" or "rmtree"; ins are the files handed over, outs the files written.
Event(kind, what, ok, ins, outs) ==
    [kind |-> kind, what |-> what, ok |-> ok, ins |-> ins, outs |-> outs]

\* fail(msg): print and sys.exit(1)
fail(msg) ==
    /\ pc' = "exited"
    /\ exitCode' = <<1>>
    /\ error' = msg

\* an uncaught exception ends the interpreter with status 1
raise(exc) ==
    /\ pc' = "exited"
    /\ exitCode' = <<1>>
    /\ error' = <<"exception", exc>>

-----------------------------------------------------------------------------
(* The file system operations the fetcher and the pipeline use.  A file      *)
(* system value is a record [files, dirs].                                   *)

FS == [files |-> files, dirs |-> dirs]

\* the directories on the way to p, p excluded
Ancestors(p) == {SubSeq(p, 1, n) : n \in 1..(Len(p) - 1)}

\* Path.mkdir(parents=True, exist_ok=True)
Mkdir(fs, d) == [fs EXCEPT !.dirs = @ \cup Ancestors(d) \cup {d}]

\* ZipFile.extractall / TarFile.extractall of the member files into dir
Extract(fs, dir, members) ==
    LET new == {dir \o m : m \in members} IN
    [files |-> fs.files \cup new,
     dirs |-> fs.dirs \cup UNION {Ancestors(p) : p \in new}]

\* Path.unlink
Unlink(fs, p) == [fs EXCEPT !.files = @ \ {p}]

\* whether Path.rename(src, dst) succeeds: Windows refuses an existing target,
\* POSIX replaces a file by a file
CanRename(fs, src, dst) ==
    \/ src = dst
    \/ dst \notin fs.files \cup fs.dirs
    \/ system # "Windows" /\ src \in fs.files /\ dst \in fs.files

\* where p ends up when src is renamed to dst
Rebase(p, src, dst) ==
    IF p = src \/ Below(p, src) THEN dst \o SubSeq(p, Len(src) + 1, Len(p)) ELSE p

\* Path.rename(src, dst), a directory taking its content along
Rename(fs, src, dst) ==
    [files |-> {Rebase(p, src, dst) : p \in fs.files},
     dirs |-> {Rebase(p, src, dst) : p \in fs.dirs}]

\* Path.iterdir
Children(fs, d) == {p \in fs.files \cup fs.dirs : Parent(p) = d}

\* Path.rmdir succeeds on an empty directory only
CanRmdir(fs, d) == Children(fs, d) = {}

Rmdir(fs, d) == [fs EXCEPT !.dirs = @ \ {d}]

\* a cleanup that empties the directory and leaves it in place
RmtreeContents(fs, d) ==
    [files |-> {p \in fs.files : ~Below(p, d)},
     dirs |-> {p \in fs.dirs : ~Below(p, d)}]

\* shutil.rmtree
Rmtree(fs, d) ==
    [files |-> {p \in fs.files : ~Below(p, d)},
     dirs |-> {p \in fs.dirs : ~(p = d \/ Below(p, d))}]

\* all orders in which a finite set can be enumerated
Orders(S) == {o \in [1..Cardinality(S) -> S] : \A x \in S : \E i \in DOMAIN o : o[i] = x}

-----------------------------------------------------------------------------
(* STEP 1: the command line and the input folder *)

\* the script is started (again) in the same working directory
Start ==
    /\ pc \in {"idle", "exited"}
    /\ \E images \in ImageDirs, debug_skip \in BOOLEAN :
          args' = [images |-> images, debug_skip |-> debug_skip]
    /\ hugin' \in (IF system = "Windows" THEN BOOLEAN ELSE {FALSE})
    /\ pc' = "check_images"
    /\ TOOLS' = << >>
    /\ skyfill' = << >>
    /\ exiftool' = << >>
    /\ log' = << >>
    /\ gates' = << >>
    /\ exitCode' = << >>
    /\ error' = << >>
    /\ UNCHANGED <<system, files, dirs, execs, w, h, extent>>

\* the input folder checked only after the work directories were made
CheckImagesAfterMkdir ==
    /\ pc = "check_images"
    /\ dirs' = Mkdir(Mkdir(FS, << <<"temp">> >>), << <<"output">> >>).dirs
    /\ log' = Append(log, Event("mkdir", "temp", TRUE, {}, {}))
    /\ \E is_dir \in BOOLEAN :
          IF is_dir
          THEN pc' = "find_tools" /\ UNCHANGED <<exitCode, error>>
          ELSE fail(<<"Image folder does not exist">>)
    /\ UNCHANGED <<system, hugin, args, TOOLS, skyfill, exiftool, files,
                   gates, execs, w, h, extent>>

\* if not image_dir.is_dir(): fail(...)
CheckImages ==
    /\ pc = "check_images"
    /\ \E is_dir \in BOOLEAN :
          IF is_dir
          THEN pc' = "find_tools" /\ UNCHANGED <<exitCode, error>>
          ELSE fail(<<"Image folder does not exist">>)
    /\ UNCHANGED <<system, hugin, args, TOOLS, skyfill, exiftool, files, dirs,
                   log, gates, execs, w, h, extent>>

-----------------------------------------------------------------------------
(* STEP 2: the tool locator *)

\* find_tool(name): <<path>>, or <<>> where the code calls fail.  inHugin and
\* inPath say whether the tool is in HUGIN_BIN and on the search path.
find_tool(name, inHugin, inPath) ==
    IF system = "Windows" /\ hugin /\ inHugin
    THEN << Join(HUGIN_BIN, <<name, ".exe">>) >>
    ELSE IF inPath THEN << Join(PATH_DIR, <<name>>) >> ELSE << >>

\* shutil.which("magick") or fail(...)
which_magick(inPath) == IF inPath THEN << Join(PATH_DIR, <<"magick">>) >> ELSE << >>

\* one entry of the TOOLS dict literal.  An existing HUGIN_BIN holds the whole
\* suite (inHugin = hugin); the search path is looked at afresh for each tool.
FindTool ==
    /\ pc = "find_tools"
    /\ LET name == ToolOrder[Len(TOOLS) + 1] IN
       \E inHugin \in {hugin}, inPath \in BOOLEAN :
          LET found == IF name = "magick" THEN which_magick(inPath)
                       ELSE find_tool(name, inHugin, inPath) IN
          IF found = << >>
          THEN /\ fail(IF name = "magick" THEN <<"ImageMagick not found in PATH">>
                       ELSE <<"Tool not found in Hugin directory or PATH", name>>)
               /\ UNCHANGED TOOLS
          ELSE /\ TOOLS' = Append(TOOLS, found[1])
               /\ pc' = IF Len(TOOLS) + 1 = Len(ToolOrder) THEN "ensure_skyfill"
                        ELSE "find_tools"
               /\ UNCHANGED <<exitCode, error>>
    /\ UNCHANGED <<system, hugin, args, skyfill, exiftool, files, dirs,
                   log, gates, execs, w, h, extent>>

\* TOOLS[name]
Tool(name) == TOOLS[CHOOSE i \in 1..Len(ToolOrder) : ToolOrder[i] = name]

-----------------------------------------------------------------------------
(* STEP 3: SkyFill *)

\* SKYFILL_URLS.get(system): the archive's file name, <<>> for no entry
SKYFILL_URLS ==
    IF system = "Windows" THEN << <<"skyfill-v1.6-windows", ".zip">> >>
    ELSE IF system = "Linux" THEN << <<"skyfill-v1.6-linux", ".tar", ".gz">> >>
    ELSE << >>

skyfill_dir == Join(TOOLS_DIR, <<"skyfill">>)

skyfill_exe ==
    Join(skyfill_dir, IF system = "Windows" THEN <<"skyfill", ".exe">> ELSE <<"skyfill">>)

\* what a SkyFill archive may hold: the executable at its root, or in a folder
SkyfillArchives ==
    { {<<Name(skyfill_exe)>>},
      {<< <<"skyfill-v1.6">>, Name(skyfill_exe)>>} }

\* what urlretrieve and the archive reader may meet: no connection, a file
\* that is no archive, an archive with the given member files
Downloads(archives) ==
    {[fetched |-> FALSE, valid |-> FALSE, members |-> {}],
     [fetched |-> TRUE, valid |-> FALSE, members |-> {}]}
    \cup {[fetched |-> TRUE, valid |-> TRUE, members |-> m] : m \in archives}

\* a fetcher that does not look for the executable first
skyfill_never_present == FALSE

\* exe.exists()
skyfill_present == skyfill_exe \in files \cup dirs

\* skyfill = ensure_skyfill()
EnsureSkyfill ==
    /\ pc = "ensure_skyfill"
    /\ IF SKYFILL_URLS = << >>
       THEN /\ fail(<<"SkyFill not available for", system>>)
            /\ UNCHANGED <<skyfill, files, dirs, execs, log>>
       ELSE IF skyfill_present
       THEN /\ skyfill' = <<skyfill_exe>>
            /\ pc' = "ensure_exiftool"
            /\ UNCHANGED <<files, dirs, execs, log, exitCode, error>>
       ELSE \E dl \in Downloads(SkyfillArchives) :
            LET archive == Join(skyfill_dir, SKYFILL_URLS[1])
                made == Mkdir(FS, skyfill_dir)
                saved == [made EXCEPT !.files = @ \cup {archive}]
                extracted == Unlink(Extract(saved, skyfill_dir, dl.members), archive)
                request == Event("download", "skyfill", dl.fetched, {}, {archive})
            IN  /\ log' = Append(log, request)
                /\ IF ~dl.fetched
                   THEN /\ raise("URLError")
                        /\ files' = made.files /\ dirs' = made.dirs
                        /\ UNCHANGED <<skyfill, execs>>
                   ELSE IF ~dl.valid
                   THEN /\ raise(IF Suffix(SKYFILL_URLS[1]) = ".zip" THEN "BadZipFile"
                                 ELSE "ReadError")
                        /\ files' = saved.files /\ dirs' = saved.dirs
                        /\ UNCHANGED <<skyfill, execs>>
                   ELSE /\ files' = extracted.files /\ dirs' = extracted.dirs
                        /\ IF skyfill_exe \notin extracted.files
                           THEN /\ fail(<<"SkyFill executable not found after extraction">>)
                                /\ UNCHANGED <<skyfill, execs>>
                           ELSE /\ execs' = IF system # "Windows"
                                            THEN execs \cup {skyfill_exe} ELSE execs
                                /\ skyfill' = <<skyfill_exe>>
                                /\ pc' = "ensure_exiftool"
                                /\ UNCHANGED <<exitCode, error>>
    /\ UNCHANGED <<system, hugin, args, TOOLS, exiftool, gates, w, h, extent>>

-----------------------------------------------------------------------------
(* STEP 3.5: ExifTool *)

exiftool_dir == Join(TOOLS_DIR, <<"exiftool">>)

exiftool_exe == Join(exiftool_dir, <<"exiftool", ".exe">>)

\* temp_exe, the name the distribution gives the executable
temp_exe == Join(exiftool_dir, <<"exiftool", "(-k)", ".exe">>)

\* what the ExifTool archive may hold: the executable at its root, the layout
\* of the 13.x distribution (a top folder with the executable and a folder of
\* Perl files), no executable
ExiftoolArchives ==
    { {<<Name(temp_exe)>>},
      {<< <<"exiftool-13.45_64">>, Name(temp_exe)>>,
       << <<"exiftool-13.45_64">>, <<"exiftool_files">>, <<"perl", ".exe">> >>},
      {<< <<"README", ".txt">> >>} }

\* exiftool_dir.rglob("*.exe")
rglob_exe(fs) ==
    {p \in fs.files \cup fs.dirs : Below(p, exiftool_dir) /\ Suffix(Name(p)) = ".exe"}

\* the loop `for item in subdir.iterdir()`, from the i-th item of the
\* enumeration on: each item is moved to exiftool_dir, and a file named
\* exiftool(-k).exe is then renamed to exiftool.exe
RECURSIVE Relocate(_, _, _)
Relocate(fs, items, i) ==
    IF i > Len(items) THEN [fs |-> fs, raised |-> FALSE]
    ELSE LET item == items[i]
             dest == Join(exiftool_dir, Name(item))
             moved == Rename(fs, item, dest)
         IN  IF ~CanRename(fs, item, dest) THEN [fs |-> fs, raised |-> TRUE]
             ELSE IF dest \in moved.files /\ Name(dest) = Name(temp_exe)
             THEN IF ~CanRename(moved, dest, exiftool_exe)
                  THEN [fs |-> moved, raised |-> TRUE]
                  ELSE Relocate(Rename(moved, dest, exiftool_exe), items, i + 1)
             ELSE Relocate(moved, items, i + 1)

\* exe.exists()
exiftool_present == exiftool_exe \in files \cup dirs

\* exiftool = ensure_exiftool()
EnsureExiftool ==
    /\ pc = "ensure_exiftool"
    /\ IF system # "Windows"
       THEN \E inPath \in BOOLEAN :
            IF inPath
            THEN /\ exiftool' = << Join(PATH_DIR, <<"exiftool">>) >>
                 /\ pc' = "mkdirs"
                 /\ UNCHANGED <<files, dirs, log, exitCode, error>>
            ELSE /\ fail(<<"ExifTool not found. Please install it using your package manager">>)
                 /\ UNCHANGED <<exiftool, files, dirs, log>>
       ELSE IF exiftool_present
       THEN /\ exiftool' = <<exiftool_exe>>
            /\ pc' = "mkdirs"
            /\ UNCHANGED <<files, dirs, log, exitCode, error>>
       ELSE \E dl \in Downloads(ExiftoolArchives) :
            LET archive == Join(exiftool_dir, <<"exiftool", ".zip">>)
                made == Mkdir(FS, exiftool_dir)
                saved == [made EXCEPT !.files = @ \cup {archive}]
                extracted == Unlink(Extract(saved, exiftool_dir, dl.members), archive)
                request == Event("download", "exiftool", dl.fetched, {}, {archive})
                return(fs) == /\ files' = fs.files /\ dirs' = fs.dirs
                              /\ exiftool' = <<exiftool_exe>>
                              /\ pc' = "mkdirs"
                              /\ UNCHANGED <<exitCode, error>>
                abort(fs, exc) == /\ files' = fs.files /\ dirs' = fs.dirs
                                  /\ raise(exc)
                                  /\ UNCHANGED exiftool
            IN  /\ log' = Append(log, request)
                /\ IF ~dl.fetched THEN abort(made, "URLError")
                   ELSE IF ~dl.valid THEN abort(saved, "BadZipFile")
                   ELSE IF temp_exe \in extracted.files \cup extracted.dirs
                   THEN IF CanRename(extracted, temp_exe, exiftool_exe)
                        THEN return(Rename(extracted, temp_exe, exiftool_exe))
                        ELSE abort(extracted, "FileExistsError")
                   ELSE IF exiftool_exe \in extracted.files \cup extracted.dirs
                   THEN return(extracted)
                   ELSE IF rglob_exe(extracted) = {}
                   THEN /\ fail(<<"ExifTool executable not found after extraction">>)
                        /\ files' = extracted.files /\ dirs' = extracted.dirs
                        /\ UNCHANGED exiftool
                   ELSE \E first \in rglob_exe(extracted) :
                        LET subdir == Parent(first) IN
                        \E items \in Orders(Children(extracted, subdir)) :
                        LET moved == Relocate(extracted, items, 1) IN
                        IF moved.raised THEN abort(moved.fs, "FileExistsError")
                        ELSE IF ~CanRmdir(moved.fs, subdir) THEN abort(moved.fs, "OSError")
                        ELSE return(Rmdir(moved.fs, subdir))
    /\ UNCHANGED <<system, hugin, args, TOOLS, skyfill, gates, execs, w, h, extent>>

-----------------------------------------------------------------------------
(* The process runner *)

\* subprocess.run(cmd) without check=True: the exit status is ignored
run_unchecked(what, exe, ins, writes, next) ==
    \E ok \in BOOLEAN : \E wrote \in writes[ok] :
    /\ log' = Append(log, Event("run", what, ok, ins, wrote))
    /\ files' = files \cup wrote
    /\ pc' = next
    /\ UNCHANGED <<dirs, exitCode, error>>

\* run(cmd): subprocess.run(cmd, check=True).  The command is an external
\* program: it exits with status zero or not and has then written wrote, one
\* of the sets in writes[ok].  A non-zero status raises CalledProcessError,
\* which nothing catches; an executable that is not there cannot be started.
run(what, exe, ins, writes, next) ==
    IF ~Exists(exe)
    THEN /\ raise("FileNotFoundError")
         /\ UNCHANGED <<files, dirs, log>>
    ELSE \E ok \in BOOLEAN : \E wrote \in writes[ok] :
         /\ log' = Append(log, Event("run", what, ok, ins, wrote))
         /\ files' = files \cup wrote
         /\ UNCHANGED dirs
         /\ IF ok THEN pc' = next /\ UNCHANGED <<exitCode, error>>
            ELSE raise("CalledProcessError")

\* a program that writes one file: it has written it when it exits with zero
OneFile(out) == [ok \in BOOLEAN |-> IF ok THEN {{out}} ELSE {{}, {out}}]

\* what a step of the pipeline leaves alone besides the file system and the log
Fixed == <<system, hugin, args, TOOLS, skyfill, exiftool, execs, w, h, extent>>

-----------------------------------------------------------------------------
(* STEP 4: stitch *)

pto == Join(TEMP_DIR, <<"pano", ".pto">>)

stitched == Join(TEMP_DIR, <<"stitched", ".tif">>)

\* the i-th image nona remaps to its -o prefix temp/pano: pano0000.tif, ...
Remapped(i) == Join(TEMP_DIR, <<"pano", "000" \o ToString(i), ".tif">>)

\* TEMP_DIR.mkdir(exist_ok=True); OUTPUT_DIR.mkdir(exist_ok=True)
MkDirs ==
    /\ pc = "mkdirs"
    /\ dirs' = Mkdir(Mkdir(FS, TEMP_DIR), OUTPUT_DIR).dirs
    /\ log' = log \o << Event("mkdir", "temp", TEMP_DIR \notin dirs, {}, {TEMP_DIR}),
                        Event("mkdir", "output", OUTPUT_DIR \notin dirs, {}, {OUTPUT_DIR}) >>
    /\ pc' = "stitch"
    /\ UNCHANGED <<files, gates, exitCode, error>>
    /\ UNCHANGED Fixed

\* the stitch group skipped whenever its output is there, flag or no flag
skip_stitch_noflag == stitched \in files \cup dirs

\* if args.debug_skip and stitched.exists(): skip the stitch group
skip_stitch == args.debug_skip /\ stitched \in files \cup dirs

StitchGate ==
    /\ pc = "stitch"
    /\ gates' = Append(gates, [group |-> "stitch", present |-> stitched \in files \cup dirs,
                               skipped |-> skip_stitch])
    /\ pc' = IF skip_stitch THEN "resize" ELSE "pto_gen"
    /\ UNCHANGED <<files, dirs, log, exitCode, error>>
    /\ UNCHANGED Fixed

\* run([TOOLS["pto_gen"], str(image_dir / "*"), "-o", pto])
PtoGen ==
    /\ pc = "pto_gen"
    /\ run("pto_gen", Tool("pto_gen"), {}, OneFile(pto), "cpfind")
    /\ UNCHANGED gates
    /\ UNCHANGED Fixed

\* run([TOOLS["cpfind"], "--multirow", "-o", pto, pto])
Cpfind ==
    /\ pc = "cpfind"
    /\ run("cpfind", Tool("cpfind"), {pto}, OneFile(pto), "autooptimiser")
    /\ UNCHANGED gates
    /\ UNCHANGED Fixed

\* run([TOOLS["autooptimiser"], "-a", "-m", "-l", "-s", "-o", pto, pto])
Autooptimiser ==
    /\ pc = "autooptimiser"
    /\ run("autooptimiser", Tool("autooptimiser"), {pto}, OneFile(pto), "pano_modify")
    /\ UNCHANGED gates
    /\ UNCHANGED Fixed

\* run([TOOLS["pano_modify"], "--canvas=AUTO", "-o", pto, pto])
PanoModify ==
    /\ pc = "pano_modify"
    /\ run("pano_modify", Tool("pano_modify"), {pto}, OneFile(pto), "nona")
    /\ UNCHANGED gates
    /\ UNCHANGED Fixed

\* what nona may have written: one remapped image per image of the project
\* when it exits with zero, any number of the first ones when it does not
NonaWrites ==
    [ok \in BOOLEAN |->
        {{Remapped(i) : i \in 0..(n - 1)} : n \in (IF ok THEN 1..MaxImages ELSE 0..MaxImages)}]

\* run([TOOLS["nona"], "-o", TEMP_DIR / "pano", pto])
Nona ==
    /\ pc = "nona"
    /\ run("nona", Tool("nona"), {pto}, NonaWrites, "enblend")
    /\ UNCHANGED gates
    /\ UNCHANGED Fixed

\* TEMP_DIR.glob("pano*.tif")
glob_pano_tif ==
    {p \in files \cup dirs : /\ Parent(p) = TEMP_DIR
                             /\ Len(Name(p)) > 1
                             /\ Name(p)[1] = "pano"
                             /\ Suffix(Name(p)) = ".tif"}

\* run([TOOLS["enblend"], "-o", stitched, *TEMP_DIR.glob("pano*.tif")])
Enblend ==
    /\ pc = "enblend"
    /\ run("enblend", Tool("enblend"), glob_pano_tif, OneFile(stitched), "resize")
    /\ UNCHANGED gates
    /\ UNCHANGED Fixed

-----------------------------------------------------------------------------
(* STEP 5: resize *)

\* the resize writing over its own input
resized_in_place == stitched

resized == Join(TEMP_DIR, <<"resized", ".jpg">>)

\* if args.debug_skip and resized.exists(): skip the resize
skip_resize == args.debug_skip /\ resized \in files \cup dirs

ResizeGate ==
    /\ pc = "resize"
    /\ gates' = Append(gates, [group |-> "resize", present |-> resized \in files \cup dirs,
                               skipped |-> skip_resize])
    /\ pc' = IF skip_resize THEN "skyfill" ELSE "magick"
    /\ UNCHANGED <<files, dirs, log, exitCode, error>>
    /\ UNCHANGED Fixed

\* the fx expressions are evaluated in real arithmetic: n/d
Rat(n, d) == [num |-> n, den |-> d]

RatLeq(a, b) == a.num * b.den <= b.num * a.den

\* fx's max(a, b)
RatMax(a, b) == IF RatLeq(a, b) THEN b ELSE a

\* the expression with w/2 taken as a whole-number division
fx_extent_intdiv(width, height) ==
    [W |-> RatMax(Rat(width, 1), Rat(height * 2, 1)),
     H |-> RatMax(Rat(width \div 2, 1), Rat(height, 1))]

\* "-extent", "%[fx:max(w,h*2)]x%[fx:max(w/2,h)]" for a width x height raster
fx_extent(width, height) ==
    [W |-> RatMax(Rat(width, 1), Rat(height * 2, 1)),
     H |-> RatMax(Rat(width, 2), Rat(height, 1))]

\* the geometry magick computes for the raster it is handed
Resize ==
    /\ pc = "idle"
    /\ extent = << >>
    /\ extent' = << fx_extent(w, h) >>
    /\ UNCHANGED <<pc, system, hugin, args, TOOLS, skyfill, exiftool, files, dirs,
                   log, gates, exitCode, error, execs, w, h>>

\* run([TOOLS["magick"], stitched, ..., "-extent", ..., resized])
Magick ==
    /\ pc = "magick"
    /\ run("magick", Tool("magick"), {stitched}, OneFile(resized), "skyfill")
    /\ UNCHANGED gates
    /\ UNCHANGED Fixed

-----------------------------------------------------------------------------
(* STEP 6: sky fill, STEP 7: metadata, STEP 8: cleanup *)

\* final = OUTPUT_DIR / f"{image_dir.name}_pano.jpg"
final == Join(OUTPUT_DIR, <<args.images, "_pano", ".jpg">>)

\* SkyFill's output taken to be the final path itself
skyfill_output_final == final

\* skyfill_output = resized.parent / f"{resized.stem}-filled.jpg"
skyfill_output == Join(Parent(resized), Stem(Name(resized)) \o <<"-filled", ".jpg">>)

\* SkyFill writes next to its input; whether it did is what the script checks
SkyfillWrites == [ok \in BOOLEAN |-> {{}, {skyfill_output}}]

\* run([str(skyfill), "-quality", "95", "-no-gpano-xmp", "-out", "jpeg", str(resized)])
Skyfill ==
    /\ pc = "skyfill"
    /\ run("skyfill", skyfill[1], {resized}, SkyfillWrites, "move")
    /\ UNCHANGED gates
    /\ UNCHANGED Fixed

\* if not skyfill_output.exists(): fail(...); skyfill_output.rename(final)
MoveOutput ==
    /\ pc = "move"
    /\ IF skyfill_output \notin files \cup dirs
       THEN /\ fail(<<"SkyFill did not create expected output file">>)
            /\ UNCHANGED <<files, dirs, log>>
       ELSE IF ~CanRename(FS, skyfill_output, final)
       THEN /\ raise("FileExistsError")
            /\ UNCHANGED <<files, dirs, log>>
       ELSE /\ files' = Rename(FS, skyfill_output, final).files
            /\ dirs' = Rename(FS, skyfill_output, final).dirs
            /\ log' = Append(log, Event("rename", "skyfill_output", TRUE, {skyfill_output}, {final}))
            /\ pc' = "exiftool"
            /\ UNCHANGED <<exitCode, error>>
    /\ UNCHANGED gates
    /\ UNCHANGED Fixed

\* ExifTool rewrites the file it is given (-overwrite_original)
ExiftoolWrites == [ok \in BOOLEAN |-> IF ok THEN {{final}} ELSE {{}}]

\* run([str(exiftool), "-UsePanoramaViewer=true", ..., "-overwrite_original", str(final)])
Exiftool ==
    /\ pc = "exiftool"
    /\ run("exiftool", exiftool[1], {final}, ExiftoolWrites, "cleanup")
    /\ UNCHANGED gates
    /\ UNCHANGED Fixed

\* shutil.rmtree(TEMP_DIR), then the script ends
Cleanup ==
    /\ pc = "cleanup"
    /\ files' = Rmtree(FS, TEMP_DIR).files
    /\ dirs' = Rmtree(FS, TEMP_DIR).dirs
    /\ log' = Append(log, Event("rmtree", "temp", TRUE, {}, {}))
    /\ pc' = "exited"
    /\ exitCode' = <<0>>
    /\ UNCHANGED <<gates, error>>
    /\ UNCHANGED Fixed

-----------------------------------------------------------------------------
(* The specifications *)

\* a fresh working directory, before the script was ever started
Boot ==
    /\ pc = "idle"
    /\ system \in Systems
    /\ hugin = FALSE
    /\ args = [images |-> "drone_shots", debug_skip |-> FALSE]
    /\ TOOLS = << >>
    /\ skyfill = << >>
    /\ exiftool = << >>
    /\ files = {}
    /\ dirs = {}
    /\ log = << >>
    /\ gates = << >>
    /\ exitCode = << >>
    /\ error = << >>
    /\ execs = {}
    /\ extent = << >>

Init ==
    /\ Boot
    /\ w = 1
    /\ h = 1

Next ==
    \/ Start
    \/ CheckImages
    \/ FindTool
    \/ EnsureSkyfill
    \/ EnsureExiftool
    \/ MkDirs
    \/ StitchGate
    \/ PtoGen
    \/ Cpfind
    \/ Autooptimiser
    \/ PanoModify
    \/ Nona
    \/ Enblend
    \/ ResizeGate
    \/ Magick
    \/ Skyfill
    \/ MoveOutput
    \/ Exiftool
    \/ Cleanup

\* any number of runs of the script, one after the other, in one directory
Spec == Init /\ [][Next]_vars

\* the -extent expression on every raster size up to MaxDim x MaxDim
InitResize ==
    /\ Boot
    /\ w \in 1..MaxDim
    /\ h \in 1..MaxDim

SpecResize == InitResize /\ [][Resize]_vars

-----------------------------------------------------------------------------
(* Properties *)

\* the events of this run that are pipeline actions
Steps == SelectSeq(log, LAMBDA e : e.kind \in {"run", "rename", "rmtree"})

\* the external commands this run has invoked
Invoked == {log[i].what : i \in {j \in DOMAIN log : log[j].kind = "run"}}

StepName(e) == IF e.kind = "run" THEN e.what ELSE e.kind

PipelineOrder ==
    <<"pto_gen", "cpfind", "autooptimiser", "pano_modify", "nona", "enblend",
      "magick", "skyfill", "rename", "exiftool", "rmtree">>

NoStageSkipped == \A i \in DOMAIN gates : ~gates[i].skipped

Exited(code) == pc = "exited" /\ exitCode = <<code>>

\* C1: in a run that skips no stage the pipeline actions taken so far are the
\* first ones of pto_gen, cpfind, autooptimiser, pano_modify, nona, enblend,
\* magick, skyfill, relocation, exiftool, deletion of temp/, in that order, and
\* all eleven once the run has succeeded; a command that exited non-zero is the
\* last thing the run did, and the run has ended with a non-zero status.
C1_StrictOrder ==
    /\ NoStageSkipped =>
          /\ Len(Steps) <= Len(PipelineOrder)
          /\ \A i \in DOMAIN Steps : StepName(Steps[i]) = PipelineOrder[i]
          /\ Exited(0) => Len(Steps) = Len(PipelineOrder)
    /\ \A i \in DOMAIN log :
          ~log[i].ok /\ log[i].kind = "run" => i = Len(log) /\ Exited(1)

\* a run that skipped nothing has succeeded
C1_Witness ==
    /\ Exited(0)
    /\ NoStageSkipped
    /\ Len(gates) = 2
    /\ Len(Steps) = Len(PipelineOrder)

StitchCommands == {"pto_gen", "cpfind", "autooptimiser", "pano_modify", "nona", "enblend"}

GroupCommands(group) == IF group = "stitch" THEN StitchCommands ELSE {"magick"}

GroupFirst(group) == IF group = "stitch" THEN "pto_gen" ELSE "magick"

\* C2: with --debug-skip set, a stage group whose output file was there when
\* the group was reached has none of its commands invoked in the run; with the
\* flag not set, a group that is reached is entered whatever files exist.
C2_SkipShortcut ==
    \A i \in DOMAIN gates :
       LET g == gates[i] IN
       /\ args.debug_skip /\ g.present => Invoked \cap GroupCommands(g.group) = {}
       /\ ~args.debug_skip =>
             GroupFirst(g.group) \in Invoked \/ pc = GroupFirst(g.group)

\* with the flag set and both files there, the run skipped both groups and succeeded
C2_Witness ==
    /\ Exited(0)
    /\ args.debug_skip
    /\ Len(gates) = 2
    /\ gates[1].present /\ gates[2].present
    /\ Invoked = {"skyfill", "exiftool"}

\* the files this run's commands have written
Written == UNION {log[i].outs : i \in {j \in DOMAIN log : log[j].kind = "run"}}

\* temp/ was made, or found, by this run
TempReached == \E i \in DOMAIN log : log[i].kind = "mkdir"

\* the fatal failures of a stage: a command exited non-zero, or SkyFill's
\* output is not there
StageFailure ==
    /\ Exited(1)
    /\ TempReached
    /\ \/ error = <<"exception", "CalledProcessError">>
       \/ error = <<"SkyFill did not create expected output file">>

Relocated == \E i \in DOMAIN log : log[i].kind = "rename"

\* C3 as stated: after a success temp/ is gone; after a stage's fatal failure
\* temp/ is there and every file the run's stages wrote is still where it was
\* written.
C3_Original ==
    /\ Exited(0) => TEMP_DIR \notin dirs
    /\ StageFailure => TEMP_DIR \in dirs /\ Written \subseteq files

\* C3, amended: after a success temp/ and all below it are gone; after any
\* fatal failure that follows the making of temp/, temp/ is there and every
\* file the run's stages wrote is still where it was written, except SkyFill's
\* output once it was relocated, which is at the final path.
C3_Cleanup ==
    /\ Exited(0) => /\ TEMP_DIR \notin dirs
                    /\ \A p \in files \cup dirs : ~Below(p, TEMP_DIR)
    /\ Exited(1) /\ TempReached =>
          /\ TEMP_DIR \in dirs
          /\ \A p \in Written :
                \/ p \in files
                \/ p = skyfill_output /\ Relocated /\ final \in files

\* exiftool exited non-zero: temp/ is kept, SkyFill's output is no longer in it
C3_Witness ==
    /\ StageFailure
    /\ log[Len(log)].what = "exiftool"
    /\ TEMP_DIR \in dirs
    /\ skyfill_output \in Written
    /\ skyfill_output \notin files

\* the run ended on a missing input folder or a missing required tool
PreconditionError ==
    /\ pc = "exited"
    /\ \/ error = <<"Image folder does not exist">>
       \/ error = <<"ImageMagick not found in PATH">>
       \/ \E name \in StitchCommands :
             error = <<"Tool not found in Hugin directory or PATH", name>>

\* C4: a run that ends on a missing input folder or on a required tool that
\* cannot be resolved ends with a non-zero status, having started no process,
\* requested no download, made neither temp/ nor output/ and reached no stage.
C4_FailFast ==
    PreconditionError => exitCode = <<1>> /\ log = << >> /\ gates = << >>

\* enblend, the sixth tool looked up, was not found
C4_Witness ==
    /\ PreconditionError
    /\ error = <<"Tool not found in Hugin directory or PATH", "enblend">>
    /\ Len(TOOLS) = 5

\* C5 as stated: a run that ended with a fatal error has not created the
\* final output file.
C5_Original == Exited(1) => ~Relocated

\* the events of this run that wrote to the final path
FinalWriters == {i \in DOMAIN log : final \in log[i].outs}

\* C5, amended: the final output file is created by the relocation that
\* follows SkyFill and by nothing before it, so a run that fails at any stage
\* up to the check of SkyFill's output has not created it; a run that fails at
\* the metadata stage, the only one after the relocation, has.
C5_FinalCreation ==
    /\ \A i \in FinalWriters :
          \/ log[i].kind = "rename"
          \/ log[i].what = "exiftool" /\ \E j \in 1..(i - 1) : log[j].kind = "rename"
    /\ \A i \in DOMAIN log :
          log[i].kind = "rename" =>
             /\ i > 1 /\ log[i - 1].what = "skyfill" /\ log[i - 1].ok
             /\ final \in files
    /\ Exited(1) /\ Relocated =>
          /\ error[1] = "exception"
          /\ log[Len(log)].kind = "rename" \/ log[Len(log)].what = "exiftool"

\* exiftool exited non-zero after the final file was put in place
C5_Witness ==
    /\ Exited(1)
    /\ Relocated
    /\ log[Len(log)].what = "exiftool"
    /\ ~log[Len(log)].ok
    /\ final \in files

\* C6: a path the asset fetcher has returned is the path of a file that
\* exists and that can be executed.
C6_FetchedExists ==
    /\ skyfill # << >> =>
          /\ skyfill[1] \in files
          /\ system # "Windows" => skyfill[1] \in execs
    /\ exiftool # << >> => Exists(exiftool[1])

\* the stages the invariant on output paths is about
WritingStages == StitchCommands \cup {"magick", "skyfill"}

StageEvents == {i \in DOMAIN log : log[i].kind = "run" /\ log[i].what \in WritingStages}

\* C7 as stated: no two distinct stages of one run have written the same path.
C7_Original ==
    \A i, j \in StageEvents :
       log[i].what # log[j].what => log[i].outs \cap log[j].outs = {}

ProjectStages == {"pto_gen", "cpfind", "autooptimiser", "pano_modify"}

\* C7, amended: every stage writes directly into temp/, and two distinct stages
\* have written the same path only if both are among project generation,
\* control-point detection, optimization and canvas finalization, which all
\* rewrite the one project file temp/pano.pto.
C7_DisjointOutputs ==
    /\ \A i \in StageEvents : \A p \in log[i].outs : Parent(p) = TEMP_DIR
    /\ \A i, j \in StageEvents :
          log[i].what # log[j].what /\ log[i].outs \cap log[j].outs # {} =>
             /\ {log[i].what, log[j].what} \subseteq ProjectStages
             /\ log[i].outs \cap log[j].outs = {pto}

\* all eight stages have run and written their outputs
C7_Witness ==
    /\ {log[i].what : i \in StageEvents} = WritingStages
    /\ \A i \in StageEvents : log[i].outs # {}

\* C8: the computed geometry has W = 2 * H exactly.
C8_TwoToOne ==
    extent # << >> =>
       extent[1].W.num * extent[1].H.den = 2 * extent[1].H.num * extent[1].W.den

\* a raster of odd width, more than twice as wide as high
C8_Witness ==
    /\ extent # << >>
    /\ w = 5 /\ h = 2
    /\ extent[1].H = Rat(5, 2)

DownloadsOf(l, tool) ==
    Len(SelectSeq(l, LAMBDA e : e.kind = "download" /\ e.what = tool))

\* C9: no step makes a network request for a tool whose executable is in
\* place under tools/, and no step removes such an executable.
C9_NoRefetch ==
    [][ /\ skyfill_exe \in files \cup dirs =>
              /\ DownloadsOf(log', "skyfill") <= DownloadsOf(log, "skyfill")
              /\ skyfill_exe \in files' \cup dirs'
        /\ exiftool_exe \in files \cup dirs =>
              /\ DownloadsOf(log', "exiftool") <= DownloadsOf(log, "exiftool")
              /\ exiftool_exe \in files' \cup dirs' ]_vars

\* a run went past both fetchers without a request, the executables being there
C9_Witness ==
    /\ pc = "mkdirs"
    /\ system = "Windows"
    /\ skyfill = <<skyfill_exe>> /\ skyfill_exe \in files
    /\ exiftool = <<exiftool_exe>> /\ exiftool_exe \in files
    /\ log = << >>

\* C10: what enblend was handed is what nona wrote in the same run.
C10_BlendInputs ==
    \A i \in DOMAIN log :
       log[i].what = "enblend" =>
          \E j \in 1..(i - 1) : log[j].what = "nona" /\ log[i].ins = log[j].outs

====
